---- MODULE Spec2Model ----
(***************************************************************************)
(* Model of argard.py: the DisplayMode object, the keyboard listener       *)
(* thread (input_thread), the command queue (input_queue) and the render   *)
(* loop of main().                                                         *)
(*                                                                         *)
(* Time is counted in units of the render loop's sleep, time.sleep(0.25):  *)
(* TicksPerSecond units make one second.  A snapshot is an opaque value:   *)
(* 0 is the empty value ({} for obs, [] for hourly_data), k > 0 is some    *)
(* fetched content.  An error string is a string, "" meaning no error.     *)
(***************************************************************************)
EXTENDS Integers, Sequences, FiniteSets, TLC

VARIABLES
    display_mode,      \* the DisplayMode object (full_forecast, mode_changed, enable_auto_switch)
    input_queue,       \* queue.Queue of commands, FIFO
    lpc,               \* input_thread: where the listener is in its key parsing
    REFRESH_SECONDS,   \* config value, read once at start-up
    pc,                \* main: position of the render loop inside its tick
    now,               \* the wall clock, time.time()
    obs, last_err,             \* main: observation snapshot and its error string
    hourly_data, last_hourly_err, \* main: forecast snapshot and its error string
    last_update_time,  \* main: refresh timer baseline
    current_time,      \* main: the clock as read by this tick
    should_refresh,    \* main: this tick's decision
    frame,             \* the layout last pushed with live.update
    tick,              \* history: what the current tick has done so far
    prev,              \* history: what the previous tick did
    totals,            \* history: commands put / removed / applied, refresh times
    dm_hist,           \* history of the calls made on the DisplayMode object
    callers            \* threads calling DisplayMode methods: the method and the line reached

vars == << display_mode, input_queue, lpc, REFRESH_SECONDS, pc, now,
           obs, last_err, hourly_data, last_hourly_err, last_update_time,
           current_time, should_refresh, frame, tick, prev, totals, dm_hist,
           callers >>

\* ------------------------------------------------------------------ bounds

MaxCmds == 2          \* trigger keys typed in a run
MaxJitter == 1        \* units a tick may take on top of its sleep (layout, terminal, fetches)
MaxExtra == 5         \* the clock runs until REFRESH_SECONDS plus this many units
MaxToggles == 4       \* calls counted on a DisplayMode object driven directly
NData == 1            \* distinct non-empty contents a provider may return
NThreads == 3         \* threads calling the methods of one DisplayMode object at once
MaxInput == 3         \* characters read from stdin when the listener runs on its own

TicksPerSecond == 4   \* time.sleep(0.25): four sleeps make a second

Interval == REFRESH_SECONDS * TicksPerSecond
Horizon == Interval + MaxExtra

\* ------------------------------------------------------------ DisplayMode

\* DisplayMode.__init__
DisplayModeInit ==
    [full_forecast |-> FALSE, mode_changed |-> FALSE, enable_auto_switch |-> FALSE,
     auto_switch_interval |-> 10 * TicksPerSecond, last_switch_time |-> 0,
     lock |-> 0]    \* threading.Lock(): 0 when free, else the thread that holds it

\* variant: the flag is flipped instead of set
toggle_forecast_flip(dm) ==
    [dm EXCEPT !.full_forecast = ~dm.full_forecast, !.mode_changed = ~dm.mode_changed]

\* variant: the mode is set instead of flipped
toggle_forecast_set(dm) ==
    [dm EXCEPT !.full_forecast = TRUE, !.mode_changed = TRUE]

\* DisplayMode.toggle_forecast, under the lock
toggle_forecast(dm) ==
    [dm EXCEPT !.full_forecast = ~dm.full_forecast, !.mode_changed = TRUE]

\* DisplayMode.auto_toggle called at clock reading t, under the lock: the value
\* returned and the object after
auto_toggle(dm, t) ==
    IF dm.enable_auto_switch /\ t - dm.last_switch_time >= dm.auto_switch_interval
    THEN [ret |-> TRUE,
          dm |-> [dm EXCEPT !.full_forecast = ~dm.full_forecast, !.mode_changed = TRUE,
                            !.last_switch_time = t]]
    ELSE [ret |-> FALSE, dm |-> dm]

\* DisplayMode.is_full_forecast
is_full_forecast(dm) == dm.full_forecast

\* variant: the call also puts the display back to Summary
has_mode_changed_reset(dm) ==
    IF dm.mode_changed
    THEN [ret |-> TRUE,  dm |-> [dm EXCEPT !.mode_changed = FALSE, !.full_forecast = FALSE]]
    ELSE [ret |-> FALSE, dm |-> dm]

\* variant: the flag is read and not cleared
has_mode_changed_peek(dm) == [ret |-> dm.mode_changed, dm |-> dm]

\* DisplayMode.has_mode_changed, under the lock: the value returned and the object after
has_mode_changed(dm) ==
    IF dm.mode_changed
    THEN [ret |-> TRUE,  dm |-> [dm EXCEPT !.mode_changed = FALSE]]
    ELSE [ret |-> FALSE, dm |-> dm]

\* -------------------------------------------------------------- providers

EmptyObs == 0         \* {}
EmptyHourly == 0      \* []
ObsErrors == {"No observations"}
HourlyErrors == {"HTTP 500"}

\* fetch_observation: every (data, error) pair it can return
fetch_observation ==
    {<<d, "">> : d \in 1..NData} \cup {<<EmptyObs, e>> : e \in ObsErrors}

\* fetch_hourly_forecast: every (data, error) pair it can return;
\* data.get("hourly", []) may be the empty list with no error
fetch_hourly_forecast ==
    {<<d, "">> : d \in 0..NData} \cup {<<EmptyHourly, e>> : e \in HourlyErrors}

\* ----------------------------------------------------------------- layout

\* header_panel: the error strings the status line of the header contains
header_panel(o, error) == IF error # "" THEN {error} ELSE {}

\* build_full_forecast_layout: a fixed header text, the forecast panels, a footer
build_full_forecast_layout(hourly) ==
    [view |-> "full", header_errors |-> {}, hourly |-> hourly]

\* build_layout
build_layout(dm, o, error, hourly) ==
    IF is_full_forecast(dm)
    THEN build_full_forecast_layout(hourly)
    ELSE [view |-> "summary", header_errors |-> header_panel(o, error),
          obs |-> o, hourly |-> hourly]

\* Python's `last_err or last_hourly_err`
ErrorOr(e1, e2) == IF e1 # "" THEN e1 ELSE e2

\* ------------------------------------------------------- command handling

\* variant: the queue is emptied and one toggle stands for all its commands
check_for_forecast_key_once(q, dm) ==
    IF q = << >>
    THEN [queue |-> q, dm |-> dm, ret |-> FALSE, removed |-> 0, applied |-> 0,
          waits |-> FALSE]
    ELSE [queue |-> << >>, dm |-> toggle_forecast(dm), ret |-> TRUE,
          removed |-> Len(q), applied |-> 1, waits |-> FALSE]

\* variant: the call returns without looking at the queue
check_for_forecast_key_skip(q, dm) ==
    [queue |-> q, dm |-> dm, ret |-> FALSE, removed |-> 0, applied |-> 0, waits |-> FALSE]

\* variant: the call takes a command with a blocking get() and waits when there is none
check_for_forecast_key_wait(q, dm) ==
    IF q = << >>
    THEN [queue |-> q, dm |-> dm, ret |-> FALSE, removed |-> 0, applied |-> 0,
          waits |-> TRUE]
    ELSE [queue |-> Tail(q), dm |-> toggle_forecast(dm), ret |-> TRUE,
          removed |-> 1, applied |-> 1, waits |-> FALSE]

\* variant: the loop goes on after a toggle, every command of the queue is applied
check_for_forecast_key_all(q, dm) ==
    [queue |-> << >>,
     dm |-> [dm EXCEPT !.full_forecast = IF Len(q) % 2 = 1 THEN ~@ ELSE @,
                       !.mode_changed = @ \/ Len(q) > 0],
     ret |-> Len(q) > 0, removed |-> Len(q), applied |-> Len(q), waits |-> FALSE]

\* check_for_forecast_key: the loop over input_queue.  Commands other than
\* 'toggle' are removed and skipped; the first 'toggle' is applied and ends the call.
\* removed / applied count the commands taken off the queue and the toggle_forecast calls;
\* waits says whether the call is left waiting for a command: never, the loop tests
\* empty() and takes commands with get_nowait().
RECURSIVE check_for_forecast_key(_, _)
check_for_forecast_key(q, dm) ==
    IF q = << >>
    THEN [queue |-> q, dm |-> dm, ret |-> FALSE, removed |-> 0, applied |-> 0,
          waits |-> FALSE]
    ELSE IF Head(q) = "toggle"
         THEN [queue |-> Tail(q), dm |-> toggle_forecast(dm), ret |-> TRUE,
               removed |-> 1, applied |-> 1, waits |-> FALSE]
         ELSE LET r == check_for_forecast_key(Tail(q), dm)
              IN  [r EXCEPT !.removed = r.removed + 1]

\* ------------------------------------------------------ refresh decision

\* variant: a mode change waits for the timer
RefreshDecision_deferred(changed, full, t, last, interval) ==
    IF t - last >= interval /\ (changed \/ ~full)
    THEN [should_refresh |-> TRUE, last_update_time |-> t]
    ELSE [should_refresh |-> FALSE, last_update_time |-> last]

\* variant: the timer test is strict
RefreshDecision_strict(changed, full, t, last, interval) ==
    IF changed
    THEN [should_refresh |-> TRUE, last_update_time |-> t]
    ELSE IF ~full /\ t - last > interval
         THEN [should_refresh |-> TRUE, last_update_time |-> t]
         ELSE [should_refresh |-> FALSE, last_update_time |-> last]

\* variant: the timer test does not look at the mode
RefreshDecision_anymode(changed, full, t, last, interval) ==
    IF changed
    THEN [should_refresh |-> TRUE, last_update_time |-> t]
    ELSE IF t - last >= interval
         THEN [should_refresh |-> TRUE, last_update_time |-> t]
         ELSE [should_refresh |-> FALSE, last_update_time |-> last]

\* variant: a mode change does not reset the timer
RefreshDecision_keepbase(changed, full, t, last, interval) ==
    IF changed
    THEN [should_refresh |-> TRUE, last_update_time |-> last]
    ELSE IF ~full /\ t - last >= interval
         THEN [should_refresh |-> TRUE, last_update_time |-> t]
         ELSE [should_refresh |-> FALSE, last_update_time |-> last]

\* variant: a mode change back to Summary keeps the timer where it was
RefreshDecision_keepfirst(changed, full, t, last, interval) ==
    IF changed
    THEN [should_refresh |-> TRUE, last_update_time |-> IF full THEN t ELSE last]
    ELSE IF ~full /\ t - last >= interval
         THEN [should_refresh |-> TRUE, last_update_time |-> t]
         ELSE [should_refresh |-> FALSE, last_update_time |-> last]

\* main, lines 598-608: should_refresh and the new last_update_time
RefreshDecision(changed, full, t, last, interval) ==
    IF changed
    THEN [should_refresh |-> TRUE, last_update_time |-> t]
    ELSE IF ~full /\ t - last >= interval
         THEN [should_refresh |-> TRUE, last_update_time |-> t]
         ELSE [should_refresh |-> FALSE, last_update_time |-> last]

\* variant: an error returned by a provider ends the refresh of the tick
AfterFetch_abort(at, err) ==
    IF err # "" THEN "sleep"
    ELSE IF at = "fetch_obs" THEN "fetch_hourly" ELSE "sleep"

\* main, lines 610-614: the statement that follows a provider call inside
\* `if should_refresh:`, given the error string the call returned: the error is
\* stored and not looked at
AfterFetch(at, err) ==
    IF at = "fetch_obs" THEN "fetch_hourly" ELSE "sleep"

\* --------------------------------------------------------------- listener

Keys == {"CR", "LF", "ESC", "[", "D", "C", "x"}

\* input_thread: one character read in parsing state l; the next parsing state and
\* whether input_queue.put('toggle') is called
input_thread(l, key) ==
    CASE l = "key"  -> IF key \in {"CR", "LF"} THEN [lpc |-> "key", put |-> TRUE]
                       ELSE IF key = "ESC" THEN [lpc |-> "seq1", put |-> FALSE]
                       ELSE [lpc |-> "key", put |-> FALSE]
      [] l = "seq1" -> IF key = "[" THEN [lpc |-> "seq2", put |-> FALSE]
                       ELSE [lpc |-> "key", put |-> FALSE]
      [] l = "seq2" -> IF key \in {"D", "C"} THEN [lpc |-> "key", put |-> TRUE]
                       ELSE [lpc |-> "key", put |-> FALSE]

\* ---------------------------------------------------------------- history

TickInit ==
    [removed |-> 0, applied |-> 0, decided |-> FALSE, changed |-> FALSE,
     elapsed |-> 0, obs_calls |-> 0, hourly_calls |-> 0]

PrevInit == [race |-> FALSE, refreshed |-> FALSE]

TotalsInit ==
    [put |-> 0,            \* commands put on input_queue
     removed |-> 0,        \* commands taken off input_queue
     applied |-> 0,        \* toggle_forecast calls made by the render loop
     refreshes |-> 0,      \* refreshes decided in the loop: 0, 1, or 2 for two and more
     refresh_last |-> 0,   \* current_time of the last refresh, if any
     refresh_prev |-> 0,   \* current_time of the refresh before it, if any
     by_timer |-> FALSE,   \* the last refresh was decided with no mode change
     read |-> << >>]       \* the characters read from stdin, when they are recorded

DmHistInit ==
    [since |-> 0,          \* toggle_forecast calls since the last has_mode_changed call
     base |-> FALSE,       \* full_forecast at the last has_mode_changed call (or at construction)
     calls |-> 0,          \* has_mode_changed calls since the last toggle_forecast call, up to 2
     ret |-> FALSE,        \* what the last has_mode_changed call returned
     first |-> FALSE,      \* what the has_mode_changed call before it returned
     prior |-> FALSE,      \* mode_changed just before the last has_mode_changed call
     ff_before |-> FALSE,  \* full_forecast just before the last has_mode_changed call
     mark_n |-> 0,         \* toggle_forecast calls since the mark
     mark_ff |-> FALSE,    \* full_forecast at the mark
     started |-> 0,        \* toggle_forecast calls begun by the calling threads
     sets |-> 0,           \* times a calling thread executed `self.mode_changed = True`
     trues |-> 0,          \* has_mode_changed calls of the calling threads that return True
     pending |-> FALSE]    \* a flag was set and no call that returns True has read it since

\* n toggle_forecast calls were made
HistToggled(h, n) ==
    IF n = 0 THEN h
    ELSE [h EXCEPT !.since = h.since + n, !.mark_n = h.mark_n + n, !.calls = 0]

\* has_mode_changed was called on the object dm and gave the result r
HistConsumed(h, dm, r) ==
    [h EXCEPT !.since = 0, !.base = r.dm.full_forecast,
              !.prior = dm.mode_changed, !.ff_before = dm.full_forecast,
              !.first = h.ret, !.ret = r.ret,
              !.calls = IF h.calls >= 2 THEN 2 ELSE h.calls + 1]

Threads == 1..NThreads

\* no thread is inside a method of the object
CallersInit == [i \in Threads |-> [op |-> "none", at |-> "idle", seen |-> FALSE]]

\* ------------------------------------------------------------------- Init

InitWith(rs) ==
    /\ display_mode = DisplayModeInit
    /\ input_queue = << >>
    /\ lpc = "key"
    /\ REFRESH_SECONDS = rs
    /\ pc = "check"
    /\ now = 0
    /\ \E ro \in fetch_observation, rh \in fetch_hourly_forecast :
          /\ obs = ro[1] /\ last_err = ro[2]
          /\ hourly_data = rh[1] /\ last_hourly_err = rh[2]
          /\ frame = build_layout(DisplayModeInit, ro[1], ErrorOr(ro[2], rh[2]), rh[1])
    /\ last_update_time = 0
    /\ current_time = 0
    /\ should_refresh = FALSE
    /\ tick = TickInit
    /\ prev = PrevInit
    /\ totals = TotalsInit
    /\ dm_hist = DmHistInit
    /\ callers = CallersInit

Init == InitWith(2)

mainVars == << pc, now, obs, last_err, hourly_data, last_hourly_err, last_update_time,
               current_time, should_refresh, frame, tick, prev >>
listenerVars == << lpc >>

\* ------------------------------------------------------- listener actions

\* input_thread reads one character from stdin
InputRead ==
    /\ lpc # "dead"
    /\ \E key \in Keys :
          LET r == input_thread(lpc, key)
          IN  /\ r.put => totals.put < MaxCmds
              /\ lpc' = r.lpc
              /\ input_queue' = IF r.put THEN Append(input_queue, "toggle") ELSE input_queue
              /\ totals' = IF r.put THEN [totals EXCEPT !.put = totals.put + 1] ELSE totals
    /\ UNCHANGED << display_mode, REFRESH_SECONDS, callers, mainVars, dm_hist >>

\* select times out inside an escape sequence: back to the top of the loop
InputTimeout ==
    /\ lpc \in {"seq1", "seq2"}
    /\ lpc' = "key"
    /\ UNCHANGED << display_mode, input_queue, REFRESH_SECONDS, callers, mainVars,
                    totals, dm_hist >>

\* select or read raises: `except: break` ends the thread
InputError ==
    /\ lpc # "dead"
    /\ lpc' = "dead"
    /\ UNCHANGED << display_mode, input_queue, REFRESH_SECONDS, callers, mainVars,
                    totals, dm_hist >>

\* ----------------------------------------------------- render loop actions

\* main, lines 586-590: check_for_forecast_key()
CheckKeys ==
    /\ pc = "check"
    /\ LET r == check_for_forecast_key(input_queue, display_mode)
       IN  /\ ~r.waits
           /\ input_queue' = r.queue
           /\ display_mode' = r.dm
           /\ tick' = [TickInit EXCEPT !.removed = r.removed, !.applied = r.applied]
           /\ totals' = [totals EXCEPT !.removed = totals.removed + r.removed,
                                       !.applied = totals.applied + r.applied]
           /\ dm_hist' = HistToggled(dm_hist, r.applied)
    /\ prev' = [race |-> /\ tick.applied > 0
                         /\ ~is_full_forecast(display_mode)
                         /\ tick.elapsed >= Interval,
                refreshed |-> should_refresh]
    /\ pc' = "render"
    /\ UNCHANGED << listenerVars, REFRESH_SECONDS, callers, now, obs, last_err, hourly_data,
                    last_hourly_err, last_update_time, current_time, should_refresh,
                    frame >>

\* main, lines 593-594: build_layout and live.update
Render ==
    /\ pc = "render"
    /\ frame' = build_layout(display_mode, obs, ErrorOr(last_err, last_hourly_err),
                             hourly_data)
    /\ pc' = "decide"
    /\ UNCHANGED << display_mode, input_queue, listenerVars, REFRESH_SECONDS, callers, now, obs,
                    last_err, hourly_data, last_hourly_err, last_update_time,
                    current_time, should_refresh, tick, prev, totals, dm_hist >>

\* main, lines 597-608: read the clock, has_mode_changed(), the timer test.
\* The clock is read here and nowhere else in the loop: what the tick took on top
\* of its sleep shows in this reading.
Decide ==
    /\ pc = "decide"
    /\ \E j \in 0..MaxJitter :
       LET t == now + j
           h == has_mode_changed(display_mode)
           d == RefreshDecision(h.ret, is_full_forecast(h.dm), t, last_update_time,
                                Interval)
       IN  /\ t <= Horizon
           /\ now' = t
           /\ display_mode' = h.dm
           /\ current_time' = t
           /\ should_refresh' = d.should_refresh
           /\ last_update_time' = d.last_update_time
           /\ tick' = [tick EXCEPT !.decided = TRUE, !.changed = h.ret,
                                   !.elapsed = t - last_update_time]
           /\ totals' = IF d.should_refresh
                        THEN [totals EXCEPT !.refreshes = IF @ >= 2 THEN 2 ELSE @ + 1,
                                            !.refresh_prev = totals.refresh_last,
                                            !.refresh_last = t,
                                            !.by_timer = ~h.ret]
                        ELSE totals
           /\ dm_hist' = HistConsumed(dm_hist, display_mode, h)
           /\ pc' = IF d.should_refresh THEN "fetch_obs" ELSE "sleep"
    /\ UNCHANGED << input_queue, listenerVars, REFRESH_SECONDS, callers, obs, last_err,
                    hourly_data, last_hourly_err, frame, prev >>

\* main, line 611: obs, last_err = fetch_observation()
FetchObservation ==
    /\ pc = "fetch_obs"
    /\ \E r \in fetch_observation :
          /\ obs' = r[1]
          /\ last_err' = r[2]
    /\ tick' = [tick EXCEPT !.obs_calls = tick.obs_calls + 1]
    /\ pc' = AfterFetch("fetch_obs", last_err')
    /\ UNCHANGED << display_mode, input_queue, listenerVars, REFRESH_SECONDS, callers, now,
                    hourly_data, last_hourly_err, last_update_time, current_time,
                    should_refresh, frame, prev, totals, dm_hist >>

\* main, line 612: hourly_data, last_hourly_err = fetch_hourly_forecast()
FetchHourlyForecast ==
    /\ pc = "fetch_hourly"
    /\ \E r \in fetch_hourly_forecast :
          /\ hourly_data' = r[1]
          /\ last_hourly_err' = r[2]
    /\ tick' = [tick EXCEPT !.hourly_calls = tick.hourly_calls + 1]
    /\ pc' = AfterFetch("fetch_hourly", last_hourly_err')
    /\ UNCHANGED << display_mode, input_queue, listenerVars, REFRESH_SECONDS, callers, now,
                    obs, last_err, last_update_time, current_time, should_refresh,
                    frame, prev, totals, dm_hist >>

\* main, line 614: time.sleep(0.25)
Sleep ==
    /\ pc = "sleep"
    /\ now + 1 <= Horizon
    /\ now' = now + 1
    /\ pc' = "check"
    /\ UNCHANGED << display_mode, input_queue, listenerVars, REFRESH_SECONDS, callers, obs,
                    last_err, hourly_data, last_hourly_err, last_update_time,
                    current_time, should_refresh, frame, tick, prev, totals, dm_hist >>

Next ==
    \/ InputRead
    \/ InputTimeout
    \/ InputError
    \/ CheckKeys
    \/ Render
    \/ Decide
    \/ FetchObservation
    \/ FetchHourlyForecast
    \/ Sleep

Spec == Init /\ [][Next]_vars

\* ------------------------------------------------- the listener on its own

\* input_thread reads one character from stdin; the characters read are recorded
StdinRead ==
    /\ lpc # "dead"
    /\ Len(totals.read) < MaxInput
    /\ \E key \in Keys :
          LET r == input_thread(lpc, key)
          IN  /\ lpc' = r.lpc
              /\ input_queue' = IF r.put THEN Append(input_queue, "toggle") ELSE input_queue
              /\ totals' = [totals EXCEPT !.put = IF r.put THEN @ + 1 ELSE @,
                                          !.read = Append(@, key)]
    /\ UNCHANGED << display_mode, REFRESH_SECONDS, callers, mainVars, dm_hist >>

NextListener ==
    \/ StdinRead
    \/ InputTimeout
    \/ InputError

SpecListener == Init /\ [][NextListener]_vars

\* ------------------------------------------- a DisplayMode object on its own

\* toggle_forecast() called from outside the program
DMToggle ==
    /\ dm_hist.since < MaxToggles
    /\ dm_hist.mark_n < MaxToggles
    /\ display_mode' = toggle_forecast(display_mode)
    /\ dm_hist' = HistToggled(dm_hist, 1)
    /\ UNCHANGED << input_queue, listenerVars, REFRESH_SECONDS, callers, mainVars, totals >>

\* has_mode_changed() called from outside the program
DMHasModeChanged ==
    /\ LET h == has_mode_changed(display_mode)
       IN  /\ display_mode' = h.dm
           /\ dm_hist' = HistConsumed(dm_hist, display_mode, h)
    /\ UNCHANGED << input_queue, listenerVars, REFRESH_SECONDS, callers, mainVars, totals >>

\* the observer starts counting toggles afresh from the current state
DMMark ==
    /\ dm_hist.mark_n > 0
    /\ dm_hist' = [dm_hist EXCEPT !.mark_n = 0, !.mark_ff = display_mode.full_forecast]
    /\ UNCHANGED << display_mode, input_queue, listenerVars, REFRESH_SECONDS, callers, mainVars,
                    totals >>

NextDM ==
    \/ DMToggle
    \/ DMHasModeChanged
    \/ DMMark

SpecDM == Init /\ [][NextDM]_vars

\* ------------------------- threads calling one DisplayMode object, line by line

\* variant: `with self.lock` lets a thread in while another holds the lock
CanAcquire_always(dm) == TRUE

\* `with self.lock`: threading.Lock lets a thread in only when no thread holds it
CanAcquire(dm) == dm.lock = 0

\* what the methods of DisplayMode neither read nor write
otherVars == << input_queue, listenerVars, REFRESH_SECONDS, mainVars, totals >>

\* a thread calls toggle_forecast() or has_mode_changed() and reaches `with self.lock`
LockCall(i) ==
    /\ callers[i].at = "idle"
    /\ \E m \in {"toggle_forecast", "has_mode_changed"} :
          /\ m = "toggle_forecast" => dm_hist.started < MaxToggles
          /\ callers' = [callers EXCEPT ![i] = [op |-> m, at |-> "wait", seen |-> FALSE]]
          /\ dm_hist' = IF m = "toggle_forecast"
                        THEN [dm_hist EXCEPT !.started = @ + 1]
                        ELSE dm_hist
    /\ UNCHANGED << display_mode, otherVars >>

\* the thread enters the `with self.lock` block
LockAcquire(i) ==
    /\ callers[i].at = "wait"
    /\ CanAcquire(display_mode)
    /\ display_mode' = [display_mode EXCEPT !.lock = i]
    /\ callers' = [callers EXCEPT ![i].at = IF callers[i].op = "toggle_forecast"
                                            THEN "flip" ELSE "test"]
    /\ UNCHANGED << dm_hist, otherVars >>

\* toggle_forecast, line 63: self.full_forecast = not self.full_forecast
LockToggleFlip(i) ==
    /\ callers[i].at = "flip"
    /\ display_mode' = [display_mode EXCEPT !.full_forecast = ~display_mode.full_forecast]
    /\ callers' = [callers EXCEPT ![i].at = "set"]
    /\ UNCHANGED << dm_hist, otherVars >>

\* toggle_forecast, line 64: self.mode_changed = True
LockToggleSet(i) ==
    /\ callers[i].at = "set"
    /\ display_mode' = [display_mode EXCEPT !.mode_changed = TRUE]
    /\ callers' = [callers EXCEPT ![i].at = "exit"]
    /\ dm_hist' = [dm_hist EXCEPT !.sets = @ + 1, !.pending = TRUE]
    /\ UNCHANGED otherVars

\* has_mode_changed, line 84: if self.mode_changed; line 87, return False, when it is not
LockTestFlag(i) ==
    /\ callers[i].at = "test"
    /\ callers' = [callers EXCEPT ![i].seen = display_mode.mode_changed,
                                  ![i].at = IF display_mode.mode_changed
                                            THEN "clear" ELSE "exit"]
    /\ dm_hist' = IF display_mode.mode_changed
                  THEN [dm_hist EXCEPT !.trues = @ + 1, !.pending = FALSE]
                  ELSE dm_hist
    /\ UNCHANGED << display_mode, otherVars >>

\* has_mode_changed, lines 85-86: self.mode_changed = False; return True
LockClearFlag(i) ==
    /\ callers[i].at = "clear"
    /\ display_mode' = [display_mode EXCEPT !.mode_changed = FALSE]
    /\ callers' = [callers EXCEPT ![i].at = "exit"]
    /\ UNCHANGED << dm_hist, otherVars >>

\* the thread leaves the `with self.lock` block and the method returns
LockRelease(i) ==
    /\ callers[i].at = "exit"
    /\ display_mode' = [display_mode EXCEPT !.lock = 0]
    /\ callers' = [callers EXCEPT ![i] = [op |-> "none", at |-> "idle", seen |-> FALSE]]
    /\ UNCHANGED << dm_hist, otherVars >>

NextLock ==
    \E i \in Threads :
       \/ LockCall(i)
       \/ LockAcquire(i)
       \/ LockToggleFlip(i)
       \/ LockToggleSet(i)
       \/ LockTestFlag(i)
       \/ LockClearFlag(i)
       \/ LockRelease(i)

SpecLock == Init /\ [][NextLock]_vars

\* ==================================================================== claims

TickOver == pc = "sleep"      \* the tick has done everything but its sleep

\* C1: a provider call that returns an error leaves the snapshot it feeds as it was:
\* obs after a failed fetch_observation, hourly_data after a failed
\* fetch_hourly_forecast.
C1_FailedFetchKeepsSnapshot ==
    [][ /\ (pc = "fetch_obs" /\ pc' = "fetch_hourly" /\ last_err' # "") => obs' = obs
        /\ (pc = "fetch_hourly" /\ pc' = "sleep" /\ last_hourly_err' # "")
              => hourly_data' = hourly_data ]_vars

\* C2: a tick that applied a toggle command decides to refresh, whatever time has
\* passed since last_update_time, and has called both providers when it ends.
C2_ToggleFetchesSameTick ==
    /\ (tick.applied > 0 /\ tick.decided) => (tick.changed /\ should_refresh)
    /\ (tick.applied > 0 /\ TickOver) => (tick.obs_calls = 1 /\ tick.hourly_calls = 1)

C2_Witness ==
    /\ TickOver
    /\ tick.applied = 1
    /\ tick.elapsed = 0
    /\ tick.obs_calls = 1 /\ tick.hourly_calls = 1

\* C3: in a tick with the flag not set and the mode Summary, a refresh is decided
\* exactly when current_time - last_update_time >= the interval, and then
\* last_update_time is current_time; two successive refreshes with no mode change
\* at the second are at least the interval apart; with no toggle, no refresh
\* happens before the interval has passed and, one second after the interval has
\* passed, exactly one refresh has happened, less than a second after the interval.
C3_TimerRefresh ==
    /\ (tick.decided /\ ~tick.changed /\ ~is_full_forecast(display_mode))
          => /\ should_refresh <=> (tick.elapsed >= Interval)
             /\ should_refresh => last_update_time = current_time
             /\ ~should_refresh => last_update_time = current_time - tick.elapsed
    /\ (totals.refreshes >= 2 /\ totals.by_timer)
          => totals.refresh_last - totals.refresh_prev >= Interval
    /\ (totals.applied = 0 /\ now < Interval) => totals.refreshes = 0
    /\ (/\ totals.applied = 0
        /\ tick.decided
        /\ current_time >= Interval + TicksPerSecond
        /\ current_time < 2 * Interval)
          => /\ totals.refreshes = 1
             /\ totals.refresh_last >= Interval
             /\ totals.refresh_last < Interval + TicksPerSecond

C3_Witness ==
    /\ totals.applied = 0
    /\ tick.decided
    /\ ~should_refresh
    /\ current_time >= Interval + TicksPerSecond
    /\ totals.refreshes = 1
    /\ totals.refresh_last = Interval + 1

\* C4: a tick in FullForecast mode with no mode change pending calls no provider,
\* however long ago last_update_time is, and the forecast snapshot stays the one
\* the tick has drawn.
C4_FullForecastFrozen ==
    (tick.decided /\ ~tick.changed /\ is_full_forecast(display_mode))
       => /\ ~should_refresh
          /\ tick.obs_calls = 0 /\ tick.hourly_calls = 0
          /\ frame.view = "full"
          /\ hourly_data = frame.hourly

C4_Witness ==
    /\ TickOver
    /\ ~tick.changed
    /\ is_full_forecast(display_mode)
    /\ tick.elapsed >= Interval
    /\ tick.obs_calls = 0 /\ tick.hourly_calls = 0

\* C5: a tick that applied a toggle into Summary mode when the interval had also
\* passed calls each provider once and resets the timer to its own time; in the
\* tick after it the time elapsed counts from that tick, so it does not refresh
\* for the interval that had passed before.
C5_ToggleAtTimerBoundary ==
    /\ (/\ tick.applied > 0 /\ tick.decided
        /\ ~is_full_forecast(display_mode) /\ tick.elapsed >= Interval)
          => /\ should_refresh
             /\ last_update_time = current_time
             /\ tick.obs_calls <= 1 /\ tick.hourly_calls <= 1
             /\ TickOver => (tick.obs_calls = 1 /\ tick.hourly_calls = 1)
    /\ (prev.race /\ tick.decided /\ tick.applied = 0)
          => /\ tick.elapsed <= 1 + MaxJitter
             /\ should_refresh => tick.elapsed >= Interval

C5_Witness ==
    /\ prev.race
    /\ TickOver
    /\ tick.applied = 0
    /\ ~should_refresh
    /\ tick.obs_calls = 0

\* C6: every frame drawn after a refresh in which a provider returned an error
\* string has that string in its header, in either mode and for either provider.
C6_ErrorInHeader ==
    (pc = "decide" /\ totals.refreshes >= 1)
       => /\ last_err # "" => last_err \in frame.header_errors
          /\ last_hourly_err # "" => last_hourly_err \in frame.header_errors

\* C7: the commands taken off input_queue by the render loop are as many as the
\* toggle_forecast calls it has made.
C7_RemovedEqualsApplied ==
    /\ totals.removed = totals.applied
    /\ totals.put = totals.removed + Len(input_queue)

C7_Witness ==
    /\ totals.removed = 2
    /\ totals.applied = 2

\* C8 as stated: the flag is true after an odd number of toggle_forecast calls since
\* the last has_mode_changed call and false after an even number.
C8_FlagFollowsParity ==
    display_mode.mode_changed <=> (dm_hist.since % 2 = 1)

\* C8 as amended: the flag is true after any positive number of toggle_forecast
\* calls since the last has_mode_changed call, even or odd, and false after none.
C8_FlagAfterAnyToggle ==
    display_mode.mode_changed <=> (dm_hist.since > 0)

C8_Witness ==
    /\ dm_hist.since = 2
    /\ display_mode.mode_changed

\* C9: after n toggle_forecast calls full_forecast is what it was before them
\* exactly when n is even; in particular after two.
C9_ToggleInvolution ==
    (display_mode.full_forecast = dm_hist.mark_ff) <=> (dm_hist.mark_n % 2 = 0)

C9_Witness ==
    /\ dm_hist.mark_n = 2
    /\ dm_hist.mark_ff
    /\ display_mode.full_forecast

\* C10: a has_mode_changed call returns the flag as it was, leaves the flag false
\* and full_forecast as it was; a second call with no toggle in between returns
\* False.
C10_ReadAndClear ==
    /\ dm_hist.calls >= 1
          => /\ dm_hist.ret = dm_hist.prior
             /\ ~display_mode.mode_changed
             /\ display_mode.full_forecast = dm_hist.ff_before
    /\ dm_hist.calls = 2 => ~dm_hist.ret

C10_Witness ==
    /\ dm_hist.calls = 2
    /\ dm_hist.first
    /\ ~dm_hist.ret

\* C11: the display starts in Summary mode; full_forecast changes only in a step
\* of the render loop that takes a 'toggle' command off input_queue; the listener,
\* the timer, the fetches and the drawing leave it alone, and auto_toggle, being
\* disabled, would not change the object whenever it were called.
DequeuesToggle ==
    /\ pc = "check" /\ pc' = "render"
    /\ input_queue # << >>
    /\ Head(input_queue) = "toggle"
    /\ input_queue' = Tail(input_queue)
    /\ totals'.removed = totals.removed + 1

C11_ModeChangesOnlyByToggle ==
    /\ ~display_mode.full_forecast
    /\ [][display_mode'.full_forecast # display_mode.full_forecast => DequeuesToggle]_vars
    /\ [](/\ ~display_mode.enable_auto_switch
          /\ \A t \in 0..(Horizon + display_mode.auto_switch_interval) :
                auto_toggle(display_mode, t) = [ret |-> FALSE, dm |-> display_mode])

C11_Witness ==
    /\ display_mode.full_forecast
    /\ totals.applied = 1
    /\ totals.refreshes = 2
    /\ TickOver

\* The decision of a tick after the mode went to FullForecast by one toggle and came
\* back to Summary by a second one, with no timer refresh since: totals.refresh_prev
\* is the time t1 of the first toggle and totals.refresh_last the time t2 of the second.
DecidesAfterReturn ==
    /\ pc = "decide" /\ pc' # "decide"
    /\ totals.applied = 2
    /\ ~display_mode.full_forecast
    /\ ~display_mode.mode_changed
    /\ ~totals.by_timer

\* C12 as stated: after a toggle at t1 and a later return to Summary, the timer
\* refresh comes at the first tick with current_time - t1 >= REFRESH_SECONDS.
C12_BaselineIsFirstToggle ==
    [][DecidesAfterReturn =>
          (should_refresh' <=> current_time' - totals.refresh_prev >= Interval)]_vars

\* C12 amended: the toggle at t2 that brings the mode back to Summary resets
\* last_update_time itself, so the next timer refresh comes at the first tick with
\* current_time - t2 >= REFRESH_SECONDS, and not before.
C12_BaselineIsLastToggle ==
    [][DecidesAfterReturn =>
          /\ last_update_time = totals.refresh_last
          /\ should_refresh' <=> current_time' - totals.refresh_last >= Interval]_vars

C12_Witness ==
    /\ totals.applied = 2
    /\ ~display_mode.full_forecast
    /\ TickOver
    /\ should_refresh
    /\ totals.by_timer
    /\ totals.refresh_prev > 0
    /\ current_time - totals.refresh_prev >= Interval

\* The character just read is a trigger: Enter, or the D or C that ends ESC [ D / ESC [ C.
ReadsTrigger ==
    /\ Len(totals'.read) = Len(totals.read) + 1
    /\ LET n == Len(totals'.read)
           key == totals'.read[n]
       IN  \/ key \in {"CR", "LF"}
           \/ /\ key \in {"D", "C"}
              /\ n >= 3
              /\ totals'.read[n - 2] = "ESC"
              /\ totals'.read[n - 1] = "["

\* C13: every trigger the listener reads (Enter, ESC [ D, ESC [ C) puts at least one
\* 'toggle' on input_queue, whatever was read before it, and nothing else puts one.
C13_EveryTriggerEnqueues ==
    [][/\ ReadsTrigger => /\ totals'.put > totals.put
                          /\ Len(input_queue') > Len(input_queue)
       /\ totals'.put > totals.put => ReadsTrigger]_vars

\* One step of the render loop, whichever it is.
LoopStep ==
    \/ CheckKeys
    \/ Render
    \/ Decide
    \/ FetchObservation
    \/ FetchHourlyForecast
    \/ Sleep

\* C14: the render loop goes on whatever the listener does.  In every state, with
\* the listener waiting for input, inside an escape sequence or dead, the next step of
\* the loop can be taken (up to the end of the clock's range): the drain never waits.
\* The timer rule of Summary mode holds in all of them, and the step in which the
\* listener dies on a read error changes nothing the render loop reads.
C14_LoopNeedsNoListener ==
    /\ []((pc = "sleep" /\ now = Horizon) \/ ENABLED LoopStep)
    /\ [](TickOver /\ ~display_mode.full_forecast /\ ~tick.changed
             => (should_refresh <=> tick.elapsed >= Interval))
    /\ [][lpc # "dead" /\ lpc' = "dead"
             => UNCHANGED << mainVars, display_mode, input_queue >>]_vars

C14_Witness ==
    /\ lpc = "dead"
    /\ totals.put = 0
    /\ TickOver
    /\ should_refresh
    /\ totals.by_timer
    /\ tick.removed = 0

\* C15: the drain step of a tick takes every command that was on input_queue when it
\* began and calls toggle_forecast() once for each.
C15_DrainTakesAll ==
    [][pc = "check" /\ pc' = "render"
          => /\ tick'.removed = Len(input_queue)
             /\ tick'.applied = Len(input_queue)]_vars

\* C16: a tick renders after its fetch: when the tick reaches its sleep, the frame on
\* the terminal is the layout of the snapshots and errors as they are then.
C16_FrameShowsThisTicksFetch ==
    TickOver => frame = build_layout(display_mode, obs, ErrorOr(last_err, last_hourly_err),
                                     hourly_data)

\* The decision of a tick when the last refresh so far was triggered by a mode change
\* (at time totals.refresh_last).
DecidesAfterModeRefresh ==
    /\ pc = "decide" /\ pc' # "decide"
    /\ totals.refreshes >= 1
    /\ ~totals.by_timer

\* C17: a tick whose refresh comes from a mode change sets last_update_time to its
\* current_time and calls each provider once, whether the calls fail or not; after it,
\* whatever the errors left by its fetches, a tick refreshes only if a toggle was
\* applied in it or, in Summary mode, REFRESH_SECONDS have passed since that tick.
C17_NoRetryAfterModeRefresh ==
    /\ [](TickOver /\ tick.changed
             => /\ should_refresh
                /\ last_update_time = current_time
                /\ tick.obs_calls = 1 /\ tick.hourly_calls = 1)
    /\ [][DecidesAfterModeRefresh
             => (should_refresh' <=>
                    \/ tick.applied > 0
                    \/ /\ ~display_mode.full_forecast
                       /\ current_time' - totals.refresh_last >= Interval)]_vars

C17_Witness ==
    /\ TickOver
    /\ tick.decided /\ ~tick.changed /\ ~should_refresh
    /\ totals.refreshes >= 1 /\ ~totals.by_timer
    /\ current_time > totals.refresh_last
    /\ last_update_time = totals.refresh_last
    /\ last_err # "" /\ last_hourly_err # ""

\* C18: in the running program the mode-changed flag is true exactly when
\* full_forecast is not what it was at the last has_mode_changed() call (at start-up
\* if there was none).
C18_FlagIffModeDiffers ==
    display_mode.mode_changed <=> (display_mode.full_forecast # dm_hist.base)

C18_Witness ==
    /\ display_mode.mode_changed
    /\ ~display_mode.full_forecast
    /\ dm_hist.base
    /\ totals.applied = 2
    /\ pc = "decide"

\* C19: the mode-changed flag does not outlive the tick that set it: a toggle applied
\* in a tick is seen by has_mode_changed() in that tick, and from that call to the end
\* of the tick's sleep the flag is false.
C19_FlagClearedWithinTick ==
    /\ pc \in {"fetch_obs", "fetch_hourly", "sleep"} => ~display_mode.mode_changed
    /\ TickOver /\ tick.applied > 0 => tick.changed

C19_Witness ==
    /\ TickOver
    /\ tick.applied = 1
    /\ tick.changed
    /\ ~display_mode.mode_changed
    /\ input_queue # << >>

\* C20: with any number of threads calling toggle_forecast() and has_mode_changed()
\* at once, no more has_mode_changed() calls return True than flags were set, and
\* whenever the lock is free the flag is true exactly when a flag was set and no call
\* returning True has read it since: a toggle is never lost to a concurrent
\* has_mode_changed().
C20_ReadAndClearAtomic ==
    /\ dm_hist.trues <= dm_hist.sets
    /\ display_mode.lock = 0 => (display_mode.mode_changed <=> dm_hist.pending)

C20_Witness ==
    /\ dm_hist.sets = 1 /\ dm_hist.trues = 1
    /\ \E i, j, k \in Threads :
          /\ callers[i].op = "has_mode_changed" /\ callers[i].at = "clear"
          /\ callers[j].op = "has_mode_changed" /\ callers[j].at = "wait"
          /\ callers[k].op = "toggle_forecast" /\ callers[k].at = "wait"

\* C21: a tick that decides to refresh calls fetch_observation once and then
\* fetch_hourly_forecast once, and a tick that decides not to calls neither.  What
\* either call returns is stored, data and error, whatever the other returned: after
\* a failed fetch_observation every result of fetch_hourly_forecast can still be
\* stored, and storing it leaves obs and last_err alone.
C21_BothProvidersOncePerRefresh ==
    /\ [](/\ pc = "fetch_obs" => tick.obs_calls = 0 /\ tick.hourly_calls = 0
          /\ pc = "fetch_hourly" => tick.obs_calls = 1 /\ tick.hourly_calls = 0
          /\ TickOver /\ tick.decided /\ should_refresh
                => tick.obs_calls = 1 /\ tick.hourly_calls = 1
          /\ TickOver /\ tick.decided /\ ~should_refresh
                => tick.obs_calls = 0 /\ tick.hourly_calls = 0
          /\ pc = "fetch_hourly"
                => \A r \in fetch_hourly_forecast :
                      ENABLED (/\ FetchHourlyForecast
                               /\ hourly_data' = r[1]
                               /\ last_hourly_err' = r[2]))
    /\ [][/\ pc = "fetch_obs" /\ pc' # "fetch_obs"
                => /\ pc' = "fetch_hourly"
                   /\ << obs', last_err' >> \in fetch_observation
                   /\ hourly_data' = hourly_data
          /\ pc = "fetch_hourly" /\ pc' # "fetch_hourly"
                => /\ pc' = "sleep"
                   /\ << hourly_data', last_hourly_err' >> \in fetch_hourly_forecast
                   /\ obs' = obs /\ last_err' = last_err]_vars

C21_Witness ==
    /\ TickOver
    /\ tick.decided /\ should_refresh
    /\ tick.obs_calls = 1 /\ tick.hourly_calls = 1
    /\ last_err # "" /\ last_hourly_err = ""
    /\ hourly_data # EmptyHourly
    /\ frame.hourly = EmptyHourly

\* The render loop is a thread that keeps being scheduled, and each provider call
\* returns: the step the loop is at is eventually taken.  Nothing is assumed of the
\* listener.  REFRESH_SECONDS is 0 here: Summary mode refreshes in every tick, and the
\* loop passes through the provider calls as often as it can.
SpecLive == InitWith(0) /\ [][Next]_vars /\ WF_vars(LoopStep)

\* The clock leaves room for the loop to come to its next drain step: the tick under
\* way takes its sleep and at most MaxJitter on top.
RoomForTick == now + 1 + MaxJitter <= Horizon

\* The clock leaves room for every command now on input_queue to be reached, one tick
\* for each.
RoomToDrain == now + Len(input_queue) * (1 + MaxJitter) <= Horizon

\* the state right after a drain step that took one command and applied it
DrainedOne == pc = "render" /\ tick.removed = 1 /\ tick.applied = 1

\* C22: every 'toggle' put on input_queue is eventually taken off it and applied by
\* one toggle_forecast() call of its own.  No command leaves the queue except at its
\* head in a drain step, which applies it by one toggle; whenever a command is pending
\* the loop comes to such a drain step; so the commands are applied in the order they
\* were put.  Once the listener has stopped, the queue becomes empty and stays empty,
\* with as many toggles applied as commands were put.
C22_EveryCommandApplied ==
    /\ [](totals.put = totals.applied + Len(input_queue))
    /\ [][input_queue' # input_queue
             => \/ /\ lpc # "dead"
                   /\ input_queue' = Append(input_queue, "toggle")
                \/ /\ pc = "check" /\ input_queue # << >>
                   /\ input_queue' = Tail(input_queue)
                   /\ display_mode' = toggle_forecast(display_mode)
                   /\ totals'.applied = totals.applied + 1]_vars
    /\ (input_queue # << >> /\ pc # "render" /\ RoomForTick) ~> DrainedOne
    /\ (lpc = "dead" /\ RoomToDrain)
          ~> [](input_queue = << >> /\ totals.applied = totals.put)

C22_Witness ==
    /\ lpc = "dead"
    /\ totals.put = 2 /\ totals.applied = 2
    /\ input_queue = << >>
    /\ DrainedOne
====
